---- MODULE Spec2Model ----
(***************************************************************************)
(* Model of class-polynomial.cpp: the dense single-variable polynomial     *)
(* Polynomial<T>.  A polynomial is its coefficient vector `coef`, a        *)
(* sequence whose element i+1 is the coefficient of x^i.  The template     *)
(* parameter T is modelled by a tag naming the coefficient type the class  *)
(* is instantiated with:                                                   *)
(*   "modp"  integers modulo the prime P (a field); dividing by zero       *)
(*           faults                                                        *)
(*   "nan"   the same field with one more value NaN, the sentinel that     *)
(*           dividing by zero yields; NaN is absorbing and compares        *)
(*           unequal to every value, as the floating-point NaN does        *)
(*   "int"   the integers with C++ truncating division (Polynomial<int>);  *)
(*           values stay far from the 32-bit range in every run checked    *)
(***************************************************************************)
EXTENDS Integers, Sequences, FiniteSets

\* ------------------------------------------------------------------------
\* Bounds of the model
\* ------------------------------------------------------------------------
MaxLen == 3          \* longest vector of the first operand x (field runs)
MaxLenRing == 2      \* the same for the three-operand runs
MaxLenDivisor == 2   \* longest vector of the second operand y (field runs)
MaxLenInt == 2       \* longest operand vector of the integer division runs
MaxLenFmt == 3       \* longest vector of the formatting runs
IntMax == 2          \* integer coefficients are drawn from -IntMax..IntMax
MaxIter == MaxLenInt + 2   \* cap of the iteration counter of the division loop

VARIABLES
    typ,      \* the coefficient type T the class is instantiated with
    x, y, z,  \* three Polynomial<T> objects: their coef vectors
    op,       \* the operation performed last
    r,        \* the polynomial it returned
    err,      \* "ok", or how the operation failed to return
    arg, val, \* the argument and the value of the last evaluation
    out,      \* the characters the last operator<< wrote
    pc,       \* position of a call of operator/ run step by step
    first, result, fd,   \* the locals of that call
    iters,    \* the iterations its loop has made
    fdPrev,   \* fd before the last iteration
    exact,    \* every quotient term so far was an exact quotient
    oob       \* the call has written outside result

vars == <<typ, x, y, z, op, r, err, arg, val, out,
          pc, first, result, fd, iters, fdPrev, exact, oob>>
valueVars == <<op, r, err, arg, val, out>>
divVars == <<pc, first, result, fd, iters, fdPrev, exact, oob>>

\* ------------------------------------------------------------------------
\* The coefficient type T
\* ------------------------------------------------------------------------
P == 3
NaN == P             \* encoding of the sentinel of type "nan": a value outside 0..P-1

Types == {"modp", "nan", "int"}

\* T(), the value-initialised coefficient; T(0) is the same value
Zero(T) == 0
\* T(1)
One(T) == 1
\* T(-1)
MinusOne(T) == IF T = "int" THEN -1 ELSE P - 1

IsNaN(T, a) == T = "nan" /\ a = NaN

\* a == b and a != b on coefficients
CEq(T, a, b) == IF IsNaN(T, a) \/ IsNaN(T, b) THEN FALSE ELSE a = b
CNe(T, a, b) == ~CEq(T, a, b)
\* a > b on coefficients (used by the formatting only)
CGt(T, a, b) == IF IsNaN(T, a) \/ IsNaN(T, b) THEN FALSE ELSE a > b

CAdd(T, a, b) ==
    IF T = "int" THEN a + b
    ELSE IF IsNaN(T, a) \/ IsNaN(T, b) THEN NaN
    ELSE (a + b) % P

CSub(T, a, b) ==
    IF T = "int" THEN a - b
    ELSE IF IsNaN(T, a) \/ IsNaN(T, b) THEN NaN
    ELSE (a + P - b) % P

CMul(T, a, b) ==
    IF T = "int" THEN a * b
    ELSE IF IsNaN(T, a) \/ IsNaN(T, b) THEN NaN
    ELSE (a * b) % P

Abs(a) == IF a < 0 THEN -a ELSE a

\* a / b of int: the quotient truncated toward zero
TruncDiv(a, b) ==
    IF (a >= 0) = (b > 0) THEN Abs(a) \div Abs(b) ELSE -(Abs(a) \div Abs(b))

\* the multiplicative inverse modulo P
Inverse(b) == CHOOSE c \in 1..(P - 1) : (b * c) % P = 1

\* TRUE when a / b raises the coefficient type's division-by-zero fault
CDivFaults(T, a, b) == T \in {"modp", "int"} /\ b = 0

\* a / b where it does not fault
CDiv(T, a, b) ==
    IF T = "int" THEN TruncDiv(a, b)
    ELSE IF IsNaN(T, a) \/ IsNaN(T, b) THEN NaN
    ELSE IF b = 0 THEN NaN
    ELSE (a * Inverse(b)) % P

\* the values of T the runs draw coefficients from
Coef(T) == IF T = "int" THEN (-IntMax)..IntMax ELSE 0..(P - 1)

\* all coefficient vectors over T of length at most n
Vectors(T, n) == UNION {[1..k -> Coef(T)] : k \in 0..n}

\* ------------------------------------------------------------------------
\* Polynomial<T>: canonical form, queries, equality
\* ------------------------------------------------------------------------
Max(a, b) == IF a >= b THEN a ELSE b

\* mutant: the trailing zeros are left in place
Delete_Front_Zeros_Skip(T, coef) == coef

\* Delete_Front_Zeros: pop_back while the last element equals T()
RECURSIVE Delete_Front_Zeros(_, _)
Delete_Front_Zeros(T, coef) ==
    IF coef # <<>> /\ CEq(T, coef[Len(coef)], Zero(T))
    THEN Delete_Front_Zeros(T, SubSeq(coef, 1, Len(coef) - 1))
    ELSE coef

\* Polynomial(const std::vector<T>& v)
PolynomialFromVector(T, v) == Delete_Front_Zeros(T, v)

\* Polynomial(T c = T())
PolynomialFromConstant(T, c) == IF CNe(T, c, Zero(T)) THEN <<c>> ELSE <<>>

\* Polynomial(Iter first, Iter last) with first = v.begin() + from and
\* last = v.begin() + to
PolynomialFromIterators(T, v, from, to) ==
    Delete_Front_Zeros(T, SubSeq(v, from + 1, to))

\* Degree(): the highest index with a coefficient different from T(), else -1
RECURSIVE DegreeScan(_, _, _)
DegreeScan(T, coef, i) ==
    IF i < 0 THEN -1
    ELSE IF CNe(T, coef[i + 1], Zero(T)) THEN i
    ELSE DegreeScan(T, coef, i - 1)

Degree(T, coef) == DegreeScan(T, coef, Len(coef) - 1)

\* operator[](size_t degree): an int argument of -1 converts to the largest
\* size_t, which no vector size exceeds, so the default value is returned
At(T, coef, degree) ==
    IF degree >= 0 /\ Len(coef) > degree THEN coef[degree + 1] ELSE Zero(T)

\* operator==
RECURSIVE EqScan(_, _, _, _)
EqScan(T, a, b, d) ==
    IF d < 0 THEN TRUE
    ELSE IF CNe(T, At(T, a, d), At(T, b, d)) THEN FALSE
    ELSE EqScan(T, a, b, d - 1)

Eq(T, a, b) ==
    IF Degree(T, a) # Degree(T, b) THEN FALSE ELSE EqScan(T, a, b, Degree(T, a))

\* operator!=
Ne(T, a, b) == ~Eq(T, a, b)

\* ------------------------------------------------------------------------
\* Arithmetic
\* ------------------------------------------------------------------------
\* mutant: the result is sized by the receiver, not by the longer operand
PlusReceiverSized(T, this, other) ==
    PolynomialFromVector(T,
        [k \in 1..Len(this) |-> CAdd(T, At(T, this, k - 1), At(T, other, k - 1))])

\* operator+
Plus(T, this, other) ==
    LET pol_size == Max(Len(this), Len(other))
    IN  PolynomialFromVector(T,
            [k \in 1..pol_size |-> CAdd(T, At(T, this, k - 1), At(T, other, k - 1))])

\* operator-
Minus(T, this, other) ==
    LET pol_size == Max(Len(this), Len(other))
    IN  PolynomialFromVector(T,
            [k \in 1..pol_size |-> CSub(T, At(T, this, k - 1), At(T, other, k - 1))])

\* pol[k] after the two loops of operator*: the products this[i] * other[j]
\* with i + j = k, added to T() for i ascending
RECURSIVE Convolve(_, _, _, _, _, _)
Convolve(T, this, other, k, i, acc) ==
    IF i = Len(this) THEN acc
    ELSE IF k - i >= 0 /\ k - i < Len(other)
         THEN Convolve(T, this, other, k, i + 1,
                       CAdd(T, acc, CMul(T, At(T, this, i), At(T, other, k - i))))
         ELSE Convolve(T, this, other, k, i + 1, acc)

\* mutant: the inner loop starts at j = 1 and misses other[0]
RECURSIVE ConvolveFromOne(_, _, _, _, _, _)
ConvolveFromOne(T, this, other, k, i, acc) ==
    IF i = Len(this) THEN acc
    ELSE IF k - i >= 1 /\ k - i < Len(other)
         THEN ConvolveFromOne(T, this, other, k, i + 1,
                              CAdd(T, acc, CMul(T, At(T, this, i), At(T, other, k - i))))
         ELSE ConvolveFromOne(T, this, other, k, i + 1, acc)

TimesFromOne(T, this, other) ==
    LET pol_size == Len(this) + Len(other)
    IN  PolynomialFromVector(T,
            [k \in 1..pol_size |-> ConvolveFromOne(T, this, other, k - 1, 0, Zero(T))])

\* operator*
Times(T, this, other) ==
    LET pol_size == Len(this) + Len(other)
    IN  PolynomialFromVector(T,
            [k \in 1..pol_size |-> Convolve(T, this, other, k - 1, 0, Zero(T))])

\* coef.resize(n, T())
Resize(T, coef, n) ==
    [k \in 1..n |-> IF k <= Len(coef) THEN coef[k] ELSE Zero(T)]

\* operator+=.  When other is the receiver itself the sizes agree, resize
\* changes nothing and other[i] is read just before coef[i] is written, so
\* the aliased call computes the same as the call on a copy
PlusAssign(T, this, other) ==
    LET pol_size == Max(Len(this), Len(other))
        coef == Resize(T, this, pol_size)
    IN  Delete_Front_Zeros(T,
            [k \in 1..pol_size |-> CAdd(T, coef[k], At(T, other, k - 1))])

\* operator-=
MinusAssign(T, this, other) ==
    LET pol_size == Max(Len(this), Len(other))
        coef == Resize(T, this, pol_size)
    IN  Delete_Front_Zeros(T,
            [k \in 1..pol_size |-> CSub(T, coef[k], At(T, other, k - 1))])

\* operator*=
TimesAssign(T, this, other) == Times(T, this, other)

\* operator(): Horner's method from the highest stored coefficient down
RECURSIVE Horner(_, _, _, _, _)
Horner(T, coef, value, i, ans) ==
    IF i < 0 THEN ans
    ELSE Horner(T, coef, value, i - 1, CAdd(T, coef[i + 1], CMul(T, ans, value)))

Eval(T, coef, value) == Horner(T, coef, value, Len(coef) - 1, Zero(T))

\* the inner loop of operator&: tmp *= other for j = 1 .. i
RECURSIVE Power(_, _, _, _, _)
Power(T, tmp, other, j, i) ==
    IF j = i + 1 THEN tmp
    ELSE Power(T, TimesAssign(T, tmp, other), other, j + 1, i)

\* the outer loop of operator&
RECURSIVE ComposeLoop(_, _, _, _, _)
ComposeLoop(T, coef, other, i, composition) ==
    IF i = Len(coef) THEN composition
    ELSE IF CNe(T, coef[i + 1], Zero(T))
         THEN ComposeLoop(T, coef, other, i + 1,
                  PlusAssign(T, composition,
                             Power(T, PolynomialFromConstant(T, coef[i + 1]), other, 1, i)))
         ELSE ComposeLoop(T, coef, other, i + 1, composition)

\* mutant: the inner loop starts at j = 0, one multiplication too many
RECURSIVE ComposeLoopExtra(_, _, _, _, _)
ComposeLoopExtra(T, coef, other, i, composition) ==
    IF i = Len(coef) THEN composition
    ELSE IF CNe(T, coef[i + 1], Zero(T))
         THEN ComposeLoopExtra(T, coef, other, i + 1,
                  PlusAssign(T, composition,
                             Power(T, PolynomialFromConstant(T, coef[i + 1]), other, 0, i)))
         ELSE ComposeLoopExtra(T, coef, other, i + 1, composition)

ComposeExtra(T, this, other) == ComposeLoopExtra(T, this, other, 0, <<>>)

\* operator&
Compose(T, this, other) == ComposeLoop(T, this, other, 0, <<>>)

\* ------------------------------------------------------------------------
\* Division, remainder, greatest common divisor
\* ------------------------------------------------------------------------
\* operator/ before its loop: first = *this, result(coef.size()), fd
DivInit(T, this) ==
    [first |-> this, result |-> Resize(T, <<>>, Len(this)), fd |-> Degree(T, this)]

\* mutant: the loop runs while fd > other.Degree()
DivCondStrict(T, st, other) == st.fd > Degree(T, other)

\* the loop condition of operator/
DivCond(T, st, other) == st.fd >= Degree(T, other)

\* TRUE when first[fd] / other[other.Degree()] faults
DivFaults(T, st, other) ==
    CDivFaults(T, At(T, st.first, st.fd), At(T, other, Degree(T, other)))

\* TRUE when result[fd - other.Degree()] lies outside result
DivOutOfRange(T, st, other) == st.fd - Degree(T, other) >= Len(st.result)

\* mutant: the monomial gets one zero too many
DivStepShifted(T, st, other) ==
    LET od == Degree(T, other)
        t == CDiv(T, At(T, st.first, st.fd), At(T, other, od))
        n == st.fd - od + 1
        p == PolynomialFromVector(T, [k \in 1..(n + 1) |-> IF k = n + 1 THEN t ELSE Zero(T)])
        rest == MinusAssign(T, st.first, Times(T, other, p))
    IN  [first |-> rest,
         result |-> IF DivOutOfRange(T, st, other) THEN st.result
                    ELSE [st.result EXCEPT ![n] = CAdd(T, @, t)],
         fd |-> Degree(T, rest)]

\* one iteration of the loop of operator/ whose coefficient division does
\* not fault; a write outside result leaves result as it is
DivStep(T, st, other) ==
    LET od == Degree(T, other)
        t == CDiv(T, At(T, st.first, st.fd), At(T, other, od))
        n == st.fd - od + 1
        p == PolynomialFromVector(T, [k \in 1..n |-> IF k = n THEN t ELSE Zero(T)])
        rest == MinusAssign(T, st.first, Times(T, other, p))
    IN  [first |-> rest,
         result |-> IF DivOutOfRange(T, st, other) THEN st.result
                    ELSE [st.result EXCEPT ![n] = CAdd(T, @, t)],
         fd |-> Degree(T, rest)]

\* the loop of operator/, given up as "diverge" after fuel iterations
RECURSIVE DivLoop(_, _, _, _)
DivLoop(T, st, other, fuel) ==
    IF ~DivCond(T, st, other)
    THEN [status |-> "ok", val |-> PolynomialFromVector(T, st.result)]
    ELSE IF DivFaults(T, st, other) THEN [status |-> "fault", val |-> <<>>]
    ELSE IF fuel = 0 THEN [status |-> "diverge", val |-> <<>>]
    ELSE DivLoop(T, DivStep(T, st, other), other, fuel - 1)

\* operator/: status "ok" and the quotient, or how the call failed.  A loop
\* whose every iteration lowers fd ends within Len(this) + 1 iterations
Div(T, this, other) == DivLoop(T, DivInit(T, this), other, Len(this) + 2)

\* mutant: *this - (*this / other)
ModNoProduct(T, this, other) ==
    LET q == Div(T, this, other)
    IN  IF q.status # "ok" THEN q
        ELSE [status |-> "ok", val |-> Minus(T, this, q.val)]

\* operator%
Mod(T, this, other) ==
    LET q == Div(T, this, other)
    IN  IF q.status # "ok" THEN q
        ELSE [status |-> "ok", val |-> Minus(T, this, Times(T, q.val, other))]

\* mutant: the result is returned without being made monic
GcdFinishNotMonic(T, gfirst, gsecond) ==
    IF Ne(T, gsecond, PolynomialFromConstant(T, Zero(T)))
    THEN [status |-> "ok", val |-> PolynomialFromConstant(T, One(T))]
    ELSE [status |-> "ok", val |-> gfirst]

\* the tail of operator, after its loop
GcdFinish(T, gfirst, gsecond) ==
    IF Ne(T, gsecond, PolynomialFromConstant(T, Zero(T)))
    THEN [status |-> "ok", val |-> PolynomialFromConstant(T, One(T))]
    ELSE Div(T, gfirst, PolynomialFromConstant(T, At(T, gfirst, Degree(T, gfirst))))

\* the loop of operator, : (gfirst, gsecond) becomes (gsecond, gfirst % gsecond)
RECURSIVE GcdLoop(_, _, _, _)
GcdLoop(T, gfirst, gsecond, fuel) ==
    IF Degree(T, gsecond) > 0
    THEN IF fuel = 0 THEN [status |-> "diverge", val |-> <<>>]
         ELSE LET m == Mod(T, gfirst, gsecond)
              IN  IF m.status # "ok" THEN m
                  ELSE GcdLoop(T, gsecond, m.val, fuel - 1)
    ELSE GcdFinish(T, gfirst, gsecond)

\* operator, (the greatest common divisor)
Gcd(T, this, other) ==
    IF Degree(T, this) < Degree(T, other)
    THEN GcdLoop(T, other, this, Len(this) + Len(other) + 2)
    ELSE GcdLoop(T, this, other, Len(this) + Len(other) + 2)

\* ------------------------------------------------------------------------
\* operator<<
\* ------------------------------------------------------------------------
Digits == <<"0", "1", "2", "3", "4", "5", "6", "7", "8", "9">>

\* out << n for an int n (one decimal digit is all the runs need)
NumStr(n) == IF n < 0 THEN "-" \o Digits[1 - n] ELSE Digits[n + 1]

\* mutant: a coefficient 1 is given its '+' also on the leading term
FormatTermPlus(T, pol, i, deg) ==
    LET c == At(T, pol, i)
    IN  IF CNe(T, c, Zero(T))
        THEN IF CNe(T, c, One(T)) /\ CNe(T, c, MinusOne(T))
             THEN (IF i # deg /\ CGt(T, c, Zero(T)) THEN "+" ELSE "")
                  \o NumStr(c)
                  \o (IF i > 1 THEN "*x^" \o NumStr(i) ELSE "")
                  \o (IF i = 1 THEN "*x" ELSE "")
             ELSE IF CEq(T, c, MinusOne(T))
             THEN (IF i > 1 THEN "-x^" \o NumStr(i) ELSE "")
                  \o (IF i = 1 THEN "-x" ELSE "")
                  \o (IF i = 0 THEN NumStr(c) ELSE "")
             ELSE IF CEq(T, c, One(T))
             THEN "+"
                  \o (IF i > 1 THEN "x^" \o NumStr(i) ELSE "")
                  \o (IF i = 1 THEN "x" ELSE "")
                  \o (IF i = 0 THEN NumStr(c) ELSE "")
             ELSE ""
        ELSE ""

\* what one pass of the loop of operator<< writes for degree i
FormatTerm(T, pol, i, deg) ==
    LET c == At(T, pol, i)
    IN  IF CNe(T, c, Zero(T))
        THEN IF CNe(T, c, One(T)) /\ CNe(T, c, MinusOne(T))
             THEN (IF i # deg /\ CGt(T, c, Zero(T)) THEN "+" ELSE "")
                  \o NumStr(c)
                  \o (IF i > 1 THEN "*x^" \o NumStr(i) ELSE "")
                  \o (IF i = 1 THEN "*x" ELSE "")
             ELSE IF CEq(T, c, MinusOne(T))
             THEN (IF i > 1 THEN "-x^" \o NumStr(i) ELSE "")
                  \o (IF i = 1 THEN "-x" ELSE "")
                  \o (IF i = 0 THEN NumStr(c) ELSE "")
             ELSE IF CEq(T, c, One(T))
             THEN (IF i # deg THEN "+" ELSE "")
                  \o (IF i > 1 THEN "x^" \o NumStr(i) ELSE "")
                  \o (IF i = 1 THEN "x" ELSE "")
                  \o (IF i = 0 THEN NumStr(c) ELSE "")
             ELSE ""
        ELSE ""

\* the loop of operator<<: i from deg down to 0
RECURSIVE FormatLoop(_, _, _, _)
FormatLoop(T, pol, i, deg) ==
    IF i = -1 THEN ""
    ELSE FormatTerm(T, pol, i, deg) \o FormatLoop(T, pol, i - 1, deg)

\* operator<<: the characters written to the stream
Format(T, pol) ==
    LET deg == Degree(T, pol)
    IN  IF deg = -1 THEN "0" ELSE FormatLoop(T, pol, deg, deg)

\* ------------------------------------------------------------------------
\* A program over two polynomials x and y with coefficients modulo P
\* ------------------------------------------------------------------------
DivIdle ==
    /\ pc = "idle" /\ first = <<>> /\ result = <<>> /\ fd = -1
    /\ iters = 0 /\ fdPrev = -1 /\ exact = TRUE /\ oob = FALSE

\* the polynomials Polynomial<T>(v) of the vectors v of length at most n
Constructed(T, n) == {PolynomialFromVector(T, v) : v \in Vectors(T, n)}

\* x and y have been constructed from coefficient vectors
Init ==
    /\ typ = "modp"
    /\ x \in Constructed(typ, MaxLen)
    /\ y \in Constructed(typ, MaxLenDivisor)
    /\ z = <<>>
    /\ op = "vector" /\ r = y /\ err = "ok"
    /\ arg = 0 /\ val = 0 /\ out = ""
    /\ DivIdle

\* the outcome of an operation returning a polynomial
Returned(name, p) ==
    /\ op' = name /\ r' = p /\ err' = "ok"
    /\ arg' = 0 /\ val' = 0 /\ out' = ""

\* the outcome of an operation that is a record of Div, Mod or Gcd
Outcome(name, res) ==
    /\ op' = name /\ r' = res.val /\ err' = res.status
    /\ arg' = 0 /\ val' = 0 /\ out' = ""

Assign(reg, p) ==
    /\ x' = IF reg = "x" THEN p ELSE x
    /\ y' = IF reg = "y" THEN p ELSE y
    /\ z' = IF reg = "z" THEN p ELSE z

Operand(o) == IF o = "x" THEN x ELSE IF o = "y" THEN y ELSE z

\* reg = Polynomial<T>(c)
ConstructConstant(reg, c) ==
    /\ Assign(reg, PolynomialFromConstant(typ, c))
    /\ Returned("constant", PolynomialFromConstant(typ, c))
    /\ UNCHANGED <<typ, divVars>>

\* x = Polynomial<T>(y.begin() + i, y.begin() + j)
ConstructIterators(i, j) ==
    /\ Assign("x", PolynomialFromIterators(typ, y, i, j))
    /\ Returned("iterators", PolynomialFromIterators(typ, y, i, j))
    /\ UNCHANGED <<typ, divVars>>

\* x += o, where o is y or x itself
OpPlusAssign(o) ==
    /\ x' = PlusAssign(typ, x, Operand(o))
    /\ Returned(IF o = "x" THEN "x+=x" ELSE "x+=y", x')
    /\ UNCHANGED <<typ, y, z, divVars>>

\* x -= o
OpMinusAssign(o) ==
    /\ x' = MinusAssign(typ, x, Operand(o))
    /\ Returned(IF o = "x" THEN "x-=x" ELSE "x-=y", x')
    /\ UNCHANGED <<typ, y, z, divVars>>

\* x *= o, while the product has at most MaxLen coefficients
OpTimesAssign(o) ==
    /\ Len(TimesAssign(typ, x, Operand(o))) <= MaxLen
    /\ x' = TimesAssign(typ, x, Operand(o))
    /\ Returned(IF o = "x" THEN "x*=x" ELSE "x*=y", x')
    /\ UNCHANGED <<typ, y, z, divVars>>

\* x + y
OpPlus ==
    /\ Returned("x+y", Plus(typ, x, y))
    /\ UNCHANGED <<typ, x, y, z, divVars>>

\* x - o
OpMinus(o) ==
    /\ Returned(IF o = "x" THEN "x-x" ELSE "x-y", Minus(typ, x, Operand(o)))
    /\ UNCHANGED <<typ, x, y, z, divVars>>

\* x * y
OpTimes ==
    /\ Returned("x*y", Times(typ, x, y))
    /\ UNCHANGED <<typ, x, y, z, divVars>>

\* x / y
OpDiv ==
    /\ Outcome("x/y", Div(typ, x, y))
    /\ UNCHANGED <<typ, x, y, z, divVars>>

\* x % y
OpMod ==
    /\ Outcome("x%y", Mod(typ, x, y))
    /\ UNCHANGED <<typ, x, y, z, divVars>>

\* (x , y)
OpGcd ==
    /\ Outcome("gcd", Gcd(typ, x, y))
    /\ UNCHANGED <<typ, x, y, z, divVars>>

\* x(v)
OpEval(v) ==
    /\ op' = "x(v)" /\ arg' = v /\ val' = Eval(typ, x, v)
    /\ r' = <<>> /\ err' = "ok" /\ out' = ""
    /\ UNCHANGED <<typ, x, y, z, divVars>>

\* (x & y)(v)
OpCompose(v) ==
    /\ op' = "x&y" /\ r' = Compose(typ, x, y) /\ err' = "ok"
    /\ arg' = v /\ val' = Eval(typ, r', v) /\ out' = ""
    /\ UNCHANGED <<typ, x, y, z, divVars>>

Next ==
    \/ \E reg \in {"x", "y"}, c \in Coef(typ) : ConstructConstant(reg, c)
    \/ \E i \in 0..Len(y) : \E j \in i..Len(y) : ConstructIterators(i, j)
    \/ \E o \in {"x", "y"} : OpPlusAssign(o)
    \/ \E o \in {"x", "y"} : OpMinusAssign(o)
    \/ \E o \in {"x", "y"} : OpTimesAssign(o)
    \/ OpPlus
    \/ \E o \in {"x", "y"} : OpMinus(o)
    \/ OpTimes
    \/ OpDiv
    \/ OpMod
    \/ OpGcd
    \/ \E v \in Coef(typ) : OpEval(v)
    \/ \E v \in Coef(typ) : OpCompose(v)

Spec == Init /\ [][Next]_vars

\* ------------------------------------------------------------------------
\* The pure operators applied to two given polynomials
\* ------------------------------------------------------------------------
NextOps ==
    \/ OpPlus
    \/ \E o \in {"x", "y"} : OpMinus(o)
    \/ OpTimes
    \/ OpDiv
    \/ OpMod
    \/ OpGcd
    \/ \E v \in Coef(typ) : OpEval(v)
    \/ \E v \in Coef(typ) : OpCompose(v)

SpecOps == Init /\ [][NextOps]_vars

\* ------------------------------------------------------------------------
\* Products and sums of three given polynomials
\* ------------------------------------------------------------------------
InitRing ==
    /\ typ = "modp"
    /\ x \in Constructed(typ, MaxLenRing)
    /\ y \in Constructed(typ, MaxLenRing)
    /\ z \in Constructed(typ, MaxLenRing)
    /\ op = "vector" /\ r = z /\ err = "ok"
    /\ arg = 0 /\ val = 0 /\ out = ""
    /\ DivIdle

\* (x * y) * z
OpTimesLeft ==
    /\ Returned("(x*y)*z", Times(typ, Times(typ, x, y), z))
    /\ UNCHANGED <<typ, x, y, z, divVars>>

\* x * (y * z)
OpTimesRight ==
    /\ Returned("x*(y*z)", Times(typ, x, Times(typ, y, z)))
    /\ UNCHANGED <<typ, x, y, z, divVars>>

\* x * (y + z)
OpTimesSum ==
    /\ Returned("x*(y+z)", Times(typ, x, Plus(typ, y, z)))
    /\ UNCHANGED <<typ, x, y, z, divVars>>

\* x * y + x * z
OpSumTimes ==
    /\ Returned("x*y+x*z", Plus(typ, Times(typ, x, y), Times(typ, x, z)))
    /\ UNCHANGED <<typ, x, y, z, divVars>>

NextRing == OpTimesLeft \/ OpTimesRight \/ OpTimesSum \/ OpSumTimes

SpecRing == InitRing /\ [][NextRing]_vars

\* ------------------------------------------------------------------------
\* Formatting of polynomials with int coefficients
\* ------------------------------------------------------------------------
InitFmt ==
    /\ typ = "int"
    /\ x \in Constructed(typ, MaxLenFmt)
    /\ y = <<>> /\ z = <<>>
    /\ op = "vector" /\ r = x /\ err = "ok"
    /\ arg = 0 /\ val = 0 /\ out = ""
    /\ DivIdle

\* out << x
OpFormat ==
    /\ op' = "<<" /\ out' = Format(typ, x)
    /\ UNCHANGED <<typ, x, y, z, r, err, arg, val, divVars>>

\* x = -x, computed as Polynomial<T>() - x
OpNegate ==
    /\ x' = Minus(typ, <<>>, x)
    /\ Returned("0-x", x')
    /\ UNCHANGED <<typ, y, z, divVars>>

NextFmt == OpFormat \/ OpNegate

SpecFmt == InitFmt /\ [][NextFmt]_vars

\* ------------------------------------------------------------------------
\* operator/ run one loop iteration at a time
\* ------------------------------------------------------------------------
DivState == [first |-> first, result |-> result, fd |-> fd]

\* the quotient term of the coming iteration is an exact quotient
ExactTerm ==
    LET num == At(typ, first, fd)
        den == At(typ, y, Degree(typ, y))
    IN  CEq(typ, CMul(typ, CDiv(typ, num, den), den), num)

\* x / y is called: lines 163-165
DivBegin ==
    /\ pc = "idle"
    /\ pc' = "loop"
    /\ first' = DivInit(typ, x).first
    /\ result' = DivInit(typ, x).result
    /\ fd' = DivInit(typ, x).fd
    /\ fdPrev' = fd'
    /\ UNCHANGED <<typ, x, y, z, valueVars, iters, exact, oob>>

\* one iteration, lines 167-175; a write outside result that does no
\* visible harm lets the loop go on
DivIterate ==
    /\ pc = "loop"
    /\ DivCond(typ, DivState, y)
    /\ ~DivFaults(typ, DivState, y)
    /\ iters < MaxIter
    /\ first' = DivStep(typ, DivState, y).first
    /\ result' = DivStep(typ, DivState, y).result
    /\ fd' = DivStep(typ, DivState, y).fd
    /\ fdPrev' = fd
    /\ iters' = iters + 1
    /\ exact' = (exact /\ ExactTerm)
    /\ oob' = (oob \/ DivOutOfRange(typ, DivState, y))
    /\ UNCHANGED <<typ, x, y, z, valueVars, pc>>

\* the write outside result at line 174 ends the program
DivCrash ==
    /\ pc = "loop"
    /\ DivCond(typ, DivState, y)
    /\ ~DivFaults(typ, DivState, y)
    /\ DivOutOfRange(typ, DivState, y)
    /\ pc' = "crash"
    /\ oob' = TRUE
    /\ err' = "crash"
    /\ UNCHANGED <<typ, x, y, z, op, r, arg, val, out,
                   first, result, fd, iters, fdPrev, exact>>

\* the coefficient division at line 167 faults
DivFault ==
    /\ pc = "loop"
    /\ DivCond(typ, DivState, y)
    /\ DivFaults(typ, DivState, y)
    /\ pc' = "fault"
    /\ err' = "fault"
    /\ UNCHANGED <<typ, x, y, z, op, r, arg, val, out,
                   first, result, fd, iters, fdPrev, exact, oob>>

\* the loop is left and Polynomial<T>{result} returned: line 177
DivReturn ==
    /\ pc = "loop"
    /\ ~DivCond(typ, DivState, y)
    /\ pc' = "done"
    /\ op' = "x/y"
    /\ r' = PolynomialFromVector(typ, result)
    /\ UNCHANGED <<typ, x, y, z, err, arg, val, out,
                   first, result, fd, iters, fdPrev, exact, oob>>

\* Polynomial<int>: any dividend, any non-zero divisor
InitIntDiv ==
    /\ typ = "int"
    /\ x \in Constructed(typ, MaxLenInt)
    /\ y \in Constructed(typ, MaxLenInt) \ {<<>>}
    /\ z = <<>>
    /\ op = "vector" /\ r = y /\ err = "ok"
    /\ arg = 0 /\ val = 0 /\ out = ""
    /\ DivIdle

NextIntDiv == DivBegin \/ DivIterate \/ DivReturn

SpecIntDiv == InitIntDiv /\ [][NextIntDiv]_vars

\* a field whose division by zero faults ("modp") or yields NaN ("nan"):
\* any dividend, any divisor, the zero polynomial included
InitFieldDiv ==
    /\ typ \in {"modp", "nan"}
    /\ x \in Constructed(typ, MaxLen)
    /\ y \in Constructed(typ, MaxLenDivisor)
    /\ z = <<>>
    /\ op = "vector" /\ r = y /\ err = "ok"
    /\ arg = 0 /\ val = 0 /\ out = ""
    /\ DivIdle

NextFieldDiv == DivBegin \/ DivIterate \/ DivCrash \/ DivFault \/ DivReturn

SpecFieldDiv == InitFieldDiv /\ [][NextFieldDiv]_vars

\* ------------------------------------------------------------------------
\* Properties
\* ------------------------------------------------------------------------
IsZero(T, p) == Degree(T, p) = -1

\* the stored sequence is empty or ends in a non-zero element
Canonical(T, p) == p = <<>> \/ CNe(T, p[Len(p)], Zero(T))

\* C1: every polynomial object and every polynomial returned is stored in
\* canonical form: the sequence is empty or its last element is non-zero,
\* Degree() is the stored length minus 1, and a polynomial all of whose
\* coefficients are zero is the empty sequence, of degree -1
C1_CanonicalForm ==
    \A p \in {x, y, r} :
        /\ Canonical(typ, p)
        /\ Degree(typ, p) = Len(p) - 1
        /\ (\A k \in 1..Len(p) : CEq(typ, p[k], Zero(typ))) => (p = <<>> /\ Degree(typ, p) = -1)

\* an in-place sum whose leading terms cancelled
C1_Witness == op = "x+=y" /\ x # <<>> /\ Len(x) < Len(y)

\* C2: for a non-zero divisor y the remainder x % y returns and
\* x == (x / y) * y + (x % y)
C2_DivisionIdentity ==
    (op = "x%y" /\ ~IsZero(typ, y)) =>
        /\ err = "ok"
        /\ Div(typ, x, y).status = "ok"
        /\ Eq(typ, x, Plus(typ, Times(typ, Div(typ, x, y).val, y), r))

\* a division with a non-constant divisor, a non-zero quotient and a
\* non-zero remainder
C2_Witness ==
    /\ op = "x%y" /\ Degree(typ, y) >= 1 /\ r # <<>>
    /\ Div(typ, x, y).val # <<>>

\* the common divisors of a and b among the polynomials of the model
CommonDivisors(T, a, b) ==
    {d \in Constructed(T, MaxLen) :
        /\ ~IsZero(T, d)
        /\ Mod(T, a, d) = [status |-> "ok", val |-> <<>>]
        /\ Mod(T, b, d) = [status |-> "ok", val |-> <<>>]}

\* C3: for x, y not both zero, (x , y) returns the same polynomial in either
\* argument order; it is monic, divides x and y, and every common divisor
\* of x and y divides it; it is the constant 1 when x and y are coprime
C3_GcdCorrect ==
    (op = "gcd" /\ ~(IsZero(typ, x) /\ IsZero(typ, y))) =>
        /\ err = "ok"
        /\ Gcd(typ, y, x) = [status |-> "ok", val |-> r]
        /\ At(typ, r, Degree(typ, r)) = One(typ)
        /\ LET common == CommonDivisors(typ, x, y)
           IN  /\ r \in common
               /\ \A d \in common : Mod(typ, r, d) = [status |-> "ok", val |-> <<>>]
               /\ (\A d \in common : Degree(typ, d) = 0) => r = <<One(typ)>>

\* a greatest common divisor of degree 1 of operands of different degrees
C3_Witness ==
    /\ op = "gcd" /\ Degree(typ, r) = 1
    /\ Degree(typ, x) = 2 /\ Degree(typ, y) = 1

\* C5: (x & y)(v) == x(y(v))
C5_ComposeEval ==
    op = "x&y" => val = Eval(typ, x, Eval(typ, y, arg))

\* a composition of a quadratic with a non-constant polynomial, evaluated
\* to a non-zero value
C5_Witness ==
    /\ op = "x&y" /\ Degree(typ, x) = 2 /\ Degree(typ, y) >= 1
    /\ val # 0 /\ arg # 0

\* C6: x + y == y + x, (x + y) - y == x, and x - x is the zero polynomial
C6_AdditiveLaws ==
    /\ op = "x+y" => (Eq(typ, r, Plus(typ, y, x)) /\ Eq(typ, Minus(typ, r, y), x))
    /\ op = "x-x" => Degree(typ, r) = -1

\* a sum whose second operand is the longer one
C6_Witness == op = "x+y" /\ x # <<>> /\ Len(x) < Len(y)

\* C7: (x * y) * z == x * (y * z) and x * (y + z) == x * y + x * z
C7_MultiplicativeLaws ==
    /\ op = "(x*y)*z" => Eq(typ, r, Times(typ, x, Times(typ, y, z)))
    /\ op = "x*(y*z)" => Eq(typ, r, Times(typ, Times(typ, x, y), z))
    /\ op = "x*(y+z)" => Eq(typ, r, Plus(typ, Times(typ, x, y), Times(typ, x, z)))
    /\ op = "x*y+x*z" => Eq(typ, r, Times(typ, x, Plus(typ, y, z)))

\* a product of three non-constant polynomials
C7_Witness ==
    /\ op = "(x*y)*z" /\ Degree(typ, r) = 3
    /\ Degree(typ, x) = 1 /\ Degree(typ, y) = 1 /\ Degree(typ, z) = 1

\* the term of degree i with int coefficient c, as the format is described
DescribedTerm(c, i, deg) ==
    (IF i # deg /\ c > 0 THEN "+" ELSE "")
    \o (IF i = 0 THEN NumStr(c)
        ELSE (IF c = 1 THEN "" ELSE IF c = -1 THEN "-" ELSE NumStr(c) \o "*")
             \o (IF i = 1 THEN "x" ELSE "x^" \o NumStr(i)))

RECURSIVE DescribedTerms(_, _, _)
DescribedTerms(pol, i, deg) ==
    IF i < 0 THEN ""
    ELSE (IF pol[i + 1] # 0 THEN DescribedTerm(pol[i + 1], i, deg) ELSE "")
         \o DescribedTerms(pol, i - 1, deg)

Described(pol) ==
    IF pol = <<>> THEN "0" ELSE DescribedTerms(pol, Len(pol) - 1, Len(pol) - 1)

\* C8: operator<< writes the zero polynomial as 0 and otherwise exactly the
\* terms with non-zero coefficient, highest degree first, each in the
\* described form; the five examples are written as stated
C8_Formatting ==
    /\ op = "<<" => out = Described(x)
    /\ Format("int", <<0, 1>>) = "x"
    /\ Format("int", <<0, -1>>) = "-x"
    /\ Format("int", <<5>>) = "5"
    /\ Format("int", <<>>) = "0"
    /\ Format("int", <<1, 2, 1>>) = "x^2+2*x+1"

\* a formatted polynomial with a leading 1, a -1 on x and a constant term
C8_Witness ==
    /\ op = "<<" /\ Len(x) = 3 /\ x[3] = 1 /\ x[2] = -1 /\ x[1] = 2
    /\ out = "x^2-x+2"

\* C10: for a non-zero divisor y the division loop terminates and x % y has
\* a degree below y's; it is zero for a constant y; and when x has a degree
\* below y's, x / y is zero and x % y == x
C10_RemainderDegree ==
    (op = "x%y" /\ ~IsZero(typ, y)) =>
        /\ err = "ok"
        /\ Degree(typ, r) < Degree(typ, y)
        /\ Degree(typ, y) = 0 => IsZero(typ, r)
        /\ Degree(typ, x) < Degree(typ, y) =>
              (Div(typ, x, y) = [status |-> "ok", val |-> <<>>] /\ Eq(typ, r, x))

\* a remainder of degree 0 left by a divisor of degree 1 after two iterations
C10_Witness ==
    /\ op = "x%y" /\ Degree(typ, x) = 2 /\ Degree(typ, y) = 1
    /\ Degree(typ, r) = 0

\* the iterations the loop of x / y may need: x.Degree() - y.Degree() + 1
IterationBound == Max(0, Degree(typ, x) - Degree(typ, y) + 1)

LeadingCoefficient(T, p) == At(T, p, Degree(T, p))

\* C9 as stated: with int coefficients and a non-zero divisor every
\* iteration lowers first.Degree() and the loop makes at most
\* x.Degree() - y.Degree() + 1 iterations
C9_IntDivisionTerminates ==
    (typ = "int" /\ ~IsZero(typ, y) /\ pc # "idle") =>
        /\ iters > 0 => fd < fdPrev
        /\ iters <= IterationBound

\* C9 amended: as long as every quotient term has been an exact quotient,
\* which is always so when y's leading coefficient is 1 or -1, every
\* iteration has lowered first.Degree() and the loop has made at most
\* x.Degree() - y.Degree() + 1 iterations; it is left with
\* first.Degree() < y.Degree()
C9_ExactDivisionTerminates ==
    (typ = "int" /\ ~IsZero(typ, y) /\ pc # "idle") =>
        /\ Abs(LeadingCoefficient(typ, y)) = 1 => exact
        /\ exact => ((iters > 0 => fd < fdPrev) /\ iters <= IterationBound)
        /\ pc = "done" => fd < Degree(typ, y)

\* a division of two iterations, all exact, by a divisor whose leading
\* coefficient is no unit
C9_Witness ==
    /\ pc = "done" /\ iters = 2 /\ exact
    /\ Abs(LeadingCoefficient(typ, y)) = 2 /\ r # <<>>

\* C4 as stated: a division by the zero polynomial either faults in the
\* coefficient division or returns; it neither writes outside result nor
\* keeps iterating
C4_ZeroDivisorPropagates ==
    (IsZero(typ, y) /\ pc # "idle") =>
        /\ ~oob
        /\ pc # "crash"
        /\ iters <= IterationBound

====
